---- MODULE Spec2Model ----
(***************************************************************************)
(* A model of the Stendhal tokenizer of crafty_novels: the token model     *)
(* (syntax/mod.rs), the crate's error conversion (error.rs) and the two    *)
(* entry points Stendhal::tokenize_string and Stendhal::tokenize_reader    *)
(* (format/stendhal/mod.rs).  parse::frontmatter, parse::line and the      *)
(* format-code table live in files that are not part of the sources at     *)
(* hand; they are modelled from the design document (sections 4.1, 4.2).   *)
(*                                                                         *)
(* A character is a one-character string, a text a sequence of characters. *)
(***************************************************************************)
EXTENDS Integers, Sequences, FiniteSets, TLC

VARIABLES
    call,       \* which operation this behaviour exercises
    text,       \* tokenize_*: the input document
    sPc,        \* tokenize_string: position in the function
    sIter,      \* tokenize_string: `input`, the lines not yet consumed
    sMeta,      \* tokenize_string: `metadata`
    sTokens,    \* tokenize_string: `tokens`
    sResult,    \* tokenize_string: the returned Result
    rPc,        \* tokenize_reader: position in the function
    rRest,      \* tokenize_reader: what `iter` has not read yet
    rChunk,     \* tokenize_reader: the lines pulled by next!
    rLog,       \* tokenize_reader: the outcome of every pull so far
    rMeta,      \* tokenize_reader: `metadata`
    rTokens,    \* tokenize_reader: `tokens`
    rResult,    \* tokenize_reader: the returned Result
    lineIn,     \* parse::line: the `line` argument
    lineAcc,    \* parse::line: `tokens` before the call
    lineRes,    \* parse::line: `tokens` after the call and the Result
    errIn,      \* From<Error>: the crate Error
    errOut,     \* From<Error>: the TokenizeError
    tokIn,      \* Token predicates: the token
    tokOut      \* Token predicates: is_break, is_white_space, is_text

vars == <<call, text, sPc, sIter, sMeta, sTokens, sResult,
          rPc, rRest, rChunk, rLog, rMeta, rTokens, rResult,
          lineIn, lineAcc, lineRes, errIn, errOut, tokIn, tokOut>>

None == [none |-> TRUE]

\* ---------------------------------------------------------------- bounds

\* Longest line remainder handed to parse::line on its own.
MaxLen == 3
\* Most body lines of a generated document.
MaxBodyLines == 2

\* ------------------------------------------------------------ characters

SECTION == "§"
LF == "\n"
CR == "\r"

RECURSIVE SeqsUpTo(_, _)
SeqsUpTo(S, n) ==
    IF n = 0 THEN {<<>>}
    ELSE LET shorter == SeqsUpTo(S, n - 1)
         IN  shorter \cup {Append(s, c) : s \in {t \in shorter : Len(t) = n - 1}, c \in S}

StartsWith(s, p) == Len(s) >= Len(p) /\ SubSeq(s, 1, Len(p)) = p

Drop(s, n) == SubSeq(s, n + 1, Len(s))

\* ---------------------------------------------------------------- tokens

Text(chars) == [type |-> "Text", val |-> chars]
Format(tag) == [type |-> "Format", val |-> <<tag>>]
Space == [type |-> "Space", val |-> <<>>]
LineBreak == [type |-> "LineBreak", val |-> <<>>]
ParagraphBreak == [type |-> "ParagraphBreak", val |-> <<>>]
ThematicBreak == [type |-> "ThematicBreak", val |-> <<>>]

Title(chars) == [type |-> "Title", val |-> chars]
Author(chars) == [type |-> "Author", val |-> chars]

TokenList(metadata, tokens) == [metadata |-> metadata, tokens |-> tokens]

is_break(t) ==
    t.type \in {"LineBreak", "ParagraphBreak", "ThematicBreak", "Space"}

is_white_space(t) == t.type = "Space" \/ is_break(t)

is_text(t) == t.type = "Text"

\* A Text built from the characters of `value`, which keeps them.
TokenFromChars_without_drain(value) == [token |-> Text(value), value |-> value]

\* impl From<&mut Vec<char>> for Token: `value.drain(..)` moves every character
\* of `value` into one Text and leaves `value` empty.
TokenFromChars(value) == [token |-> Text(value), value |-> <<>>]

\* ---------------------------------------------------------------- errors

Err(kind, payload) == [kind |-> kind, payload |-> payload]

ErrorFrom_OtherFallback(err) ==
    CASE err.kind \in {"InvalidFormatCodeString", "NoSuchFormatCode", "MissingFormatCode"}
            -> Err("MalformedSyntaxItem", "")
      [] err.kind \in {"UnexpectedEndOfIter", "IncompleteOrMissingFrontmatter"}
            -> Err("Other", err.payload)
      [] err.kind = "NoSuchCharLiteral" -> Err("NoSuchSyntaxItem", "")
      [] err.kind = "UnexpectedToken" -> Err("UnexpectedSyntaxItem", "")
      [] err.kind = "Io" -> Err("Io", err.payload)
      [] err.kind = "Fmt" -> Err("Fmt", err.payload)
      [] err.kind = "Utf8" -> Err("Utf8", err.payload)

\* impl From<Error> for TokenizeError
ErrorFrom(err) ==
    CASE err.kind \in {"InvalidFormatCodeString", "NoSuchFormatCode", "MissingFormatCode",
                       "UnexpectedEndOfIter", "IncompleteOrMissingFrontmatter"}
            -> Err("MalformedSyntaxItem", "")
      [] err.kind = "NoSuchCharLiteral" -> Err("NoSuchSyntaxItem", "")
      [] err.kind = "UnexpectedToken" -> Err("UnexpectedSyntaxItem", "")
      [] err.kind = "Io" -> Err("Io", err.payload)
      [] err.kind = "Fmt" -> Err("Fmt", err.payload)
      [] err.kind = "Utf8" -> Err("Utf8", err.payload)

\* ----------------------------------------------- format codes (minecraft)

\* The format-code table, as far as the design document gives it: 'o' is
\* italic, 'r' is reset; no other character used here has a mapping.
FormatTable == [c \in {"o", "r"} |-> IF c = "o" THEN "Italic" ELSE "Reset"]

HasFormat(c) == c \in DOMAIN FormatTable

FormatOf(c) == FormatTable[c]

\* ------------------------------------------------------- parse::line

PageMarker == <<"#", "-", " ">>

Ok(tokens) == [tokens |-> tokens, err |-> None]
Fail(tokens, e) == [tokens |-> tokens, err |-> e]

\* Flushing the pending text run: nothing when it is empty.
Flush(tokens, pending) ==
    IF pending = <<>> THEN [tokens |-> tokens, pending |-> pending]
    ELSE LET made == TokenFromChars(pending)
         IN  [tokens |-> Append(tokens, made.token), pending |-> made.value]

FormatCode_carrying_the_section_sign(chars) ==
    IF Len(chars) = 1
    THEN [err |-> Err("MissingFormatCode", ""), tag |-> ""]
    ELSE IF ~HasFormat(chars[2])
    THEN [err |-> Err("NoSuchFormatCode", chars[1]), tag |-> ""]
    ELSE [err |-> None, tag |-> FormatOf(chars[2])]

\* The format code that `chars` begins with, chars[1] being '§': the next
\* character must exist and have a format (section 4.2, step 2).
FormatCode(chars) ==
    IF Len(chars) = 1
    THEN [err |-> Err("MissingFormatCode", ""), tag |-> ""]
    ELSE IF ~HasFormat(chars[2])
    THEN [err |-> Err("NoSuchFormatCode", chars[2]), tag |-> ""]
    ELSE [err |-> None, tag |-> FormatOf(chars[2])]

\* The scan of a line's characters, left to right (section 4.2, steps 2, 3).
RECURSIVE Scan(_, _, _)
Scan(tokens, pending, chars) ==
    IF chars = <<>>
    THEN Ok(Append(Flush(tokens, pending).tokens, LineBreak))
    ELSE LET c == Head(chars)
             f == Flush(tokens, pending)
         IN  IF c = SECTION
             THEN LET code == FormatCode(chars)
                  IN  IF code.err # None
                      THEN Fail(tokens, code.err)
                      ELSE Scan(Append(f.tokens, Format(code.tag)), f.pending,
                                Drop(chars, 2))
             ELSE IF c = " "
             THEN Scan(Append(f.tokens, Space), f.pending, Tail(chars))
             ELSE Scan(tokens, Append(pending, c), Tail(chars))

line_marker_without_space(tokens, l) ==
    IF StartsWith(l, SubSeq(PageMarker, 1, 2))
    THEN Scan(Append(tokens, ThematicBreak), <<>>, Drop(l, 2))
    ELSE Scan(tokens, <<>>, l)

\* parse::line(tokens, line) (section 4.2): the accumulator afterwards and the
\* Result.
line(tokens, l) ==
    IF StartsWith(l, PageMarker)
    THEN Scan(Append(tokens, ThematicBreak), <<>>, Drop(l, Len(PageMarker)))
    ELSE Scan(tokens, <<>>, l)

\* ------------------------------------------------ parse::frontmatter

TitleKey == <<"t", "i", "t", "l", "e", ":", " ">>
AuthorKey == <<"a", "u", "t", "h", "o", "r", ":", " ">>
PagesLine == <<"p", "a", "g", "e", "s", ":">>

IncompleteOrMissingFrontmatter == Err("IncompleteOrMissingFrontmatter", "")

\* parse::frontmatter(iter) (section 4.1): the metadata and what is left of
\* the iterator, or the frontmatter error.
frontmatter(iter) ==
    IF Len(iter) < 1 \/ ~StartsWith(iter[1], TitleKey)
    THEN [err |-> IncompleteOrMissingFrontmatter, metadata |-> <<>>, rest |-> <<>>]
    ELSE IF Len(iter) < 2 \/ ~StartsWith(iter[2], AuthorKey)
    THEN [err |-> IncompleteOrMissingFrontmatter, metadata |-> <<>>, rest |-> <<>>]
    ELSE IF Len(iter) < 3 \/ iter[3] # PagesLine
    THEN [err |-> IncompleteOrMissingFrontmatter, metadata |-> <<>>, rest |-> <<>>]
    ELSE [err |-> None,
          metadata |-> <<Title(Drop(iter[1], Len(TitleKey))),
                         Author(Drop(iter[2], Len(AuthorKey)))>>,
          rest |-> Drop(iter, 3)]

\* ------------------------------------------------------------- lines

\* The position of the first line feed of t, 0 when it has none.
FirstLF(t) ==
    IF \E i \in 1..Len(t) : t[i] = LF
    THEN CHOOSE i \in 1..Len(t) : t[i] = LF /\ \A j \in 1..(i - 1) : t[j] # LF
    ELSE 0

StripSuffixCR(l) ==
    IF l # <<>> /\ l[Len(l)] = CR THEN SubSeq(l, 1, Len(l) - 1) ELSE l

\* One step of str::lines: the next line and the rest, None at the end.
\* A line ends at "\n" or "\r\n"; a last line without "\n" is kept whole.
StrNextLine(t) ==
    IF t = <<>> THEN None
    ELSE LET i == FirstLF(t)
         IN  IF i = 0 THEN [line |-> t, rest |-> <<>>]
             ELSE [line |-> StripSuffixCR(SubSeq(t, 1, i - 1)), rest |-> Drop(t, i)]

RECURSIVE StrLines(_)
StrLines(t) ==
    LET n == StrNextLine(t)
    IN  IF n = None THEN <<>> ELSE <<n.line>> \o StrLines(n.rest)

BufReadLine_keeping_cr(t) ==
    IF t = <<>> THEN None
    ELSE LET i == FirstLF(t)
         IN  IF i = 0 THEN [line |-> t, rest |-> <<>>]
             ELSE [line |-> SubSeq(t, 1, i - 1), rest |-> Drop(t, i)]

\* One step of BufReader::lines: read_line reads up to and with the next
\* "\n"; nothing read is the end; a final "\n", then a final "\r", is popped.
BufReadLine(t) ==
    IF t = <<>> THEN None
    ELSE LET i == FirstLF(t)
             buf == IF i = 0 THEN t ELSE SubSeq(t, 1, i)
             rest == IF i = 0 THEN <<>> ELSE Drop(t, i)
         IN  IF buf[Len(buf)] = LF
             THEN [line |-> StripSuffixCR(SubSeq(buf, 1, Len(buf) - 1)), rest |-> rest]
             ELSE [line |-> buf, rest |-> rest]

\* ------------------------------------------------------------ inputs

\* The characters of the lines handed to parse::line on its own.
Alphabet == {"x", " ", SECTION, "o", "z", "#", "-"}

\* Lines for parse::line: any remainder, bare or behind a page marker.
Lines == {p \o b : p \in {<<>>, PageMarker}, b \in SeqsUpTo(Alphabet, MaxLen)}

Accumulators == {<<>>, <<Text(<<"x">>), LineBreak>>}

TitleLines == {TitleKey \o <<"T", " ", "t">>, TitleKey, <<"t", "i", "t", "l", "e", ":", "T">>}
AuthorLines == {AuthorKey \o <<"A">>, <<"a", "u", "t", "o", "r", ":", " ", "A">>}
PagesLines == {PagesLine, PagesLine \o <<" ">>}

\* Every frontmatter, well-formed or not, and every beginning of one.
Heads ==
    {<<>>} \cup {<<t>> : t \in TitleLines}
           \cup {<<t, a>> : t \in TitleLines, a \in AuthorLines}
           \cup {<<t, a, p>> : t \in TitleLines, a \in AuthorLines, p \in PagesLines}

GoodHead == <<TitleKey \o <<"T", " ", "t">>, AuthorKey \o <<"A">>, PagesLine>>
BadHead == <<TitleKey \o <<"T", " ", "t">>, <<"a", "u", "t", "o", "r", ":", " ", "A">>, PagesLine>>

BodyLineSet ==
    { <<>>, <<"x">>, <<" ">>, <<"x", " ", "y">>, <<SECTION, "o", "x">>,
      <<"x", SECTION>>, <<SECTION, "z">>, <<"#", "-", " ", "x">> }

Bodies == SeqsUpTo(BodyLineSet, MaxBodyLines)

\* The text of the lines ls, each ended by eol, the last one only when fin.
RECURSIVE Join(_, _, _)
Join(ls, eol, fin) ==
    IF ls = <<>> THEN <<>>
    ELSE IF Len(ls) = 1 THEN (IF fin THEN ls[1] \o eol ELSE ls[1])
    ELSE ls[1] \o eol \o Join(Tail(ls), eol, fin)

\* The input of the example of format/stendhal/mod.rs; rustdoc shows a line
\* that starts with '#' with the '#' doubled.
ExampleInput ==
    Join(<<<<"t", "i", "t", "l", "e", ":", " ", "c", "r", "a", "f", "t", "y", "_", "n", "o", "v", "e", "l", "s">>,
           <<"a", "u", "t", "h", "o", "r", ":", " ", "R", "e", "m", "a", "s", "t", "e", "r", "e", "d", "A", "r", "c", "h">>,
           PagesLine,
           <<"#", "-", " ", "I", "t", "a", "l", "i", "c", ":", "§", "o", " ", "t", "e", "x", "t", " ", "§", "r", "r", "e", "s", "e", "t">>>>, <<LF>>, FALSE)

\* The same document with the body line as the documentation prints it.
ExampleInputAsPrinted ==
    Join(<<<<"t", "i", "t", "l", "e", ":", " ", "c", "r", "a", "f", "t", "y", "_", "n", "o", "v", "e", "l", "s">>,
           <<"a", "u", "t", "h", "o", "r", ":", " ", "R", "e", "m", "a", "s", "t", "e", "r", "e", "d", "A", "r", "c", "h">>,
           PagesLine,
           <<"#">> \o <<"#", "-", " ", "I", "t", "a", "l", "i", "c", ":", "§", "o", " ", "t", "e", "x", "t", " ", "§", "r", "r", "e", "s", "e", "t">>>>, <<LF>>, FALSE)

Documents ==
    {Join(h, eol, fin) : h \in Heads, eol \in {<<LF>>, <<CR, LF>>}, fin \in BOOLEAN}
    \cup {Join(GoodHead \o b, eol, fin) :
            b \in Bodies, eol \in {<<LF>>, <<CR, LF>>}, fin \in BOOLEAN}
    \cup {Join(BadHead \o b, <<LF>>, TRUE) : b \in {c \in Bodies : Len(c) <= 1}}
    \cup {ExampleInput, ExampleInputAsPrinted}

IoFaults == {"io1", "io2"}

Errors ==
    {Err("InvalidFormatCodeString", p) : p \in {"", "no code"}}
    \cup {Err("NoSuchFormatCode", c) : c \in {"z", SECTION}}
    \cup {Err("NoSuchCharLiteral", c) : c \in {"x", "y"}}
    \cup {Err("UnexpectedToken", t) : t \in {"Space", "LineBreak"}}
    \cup {Err("MissingFormatCode", ""), Err("UnexpectedEndOfIter", ""),
          Err("IncompleteOrMissingFrontmatter", "")}
    \cup {Err("Io", f) : f \in IoFaults}
    \cup {Err("Fmt", "fmt")}
    \cup {Err("Utf8", u) : u \in {"utf8a", "utf8b"}}

Tokens ==
    {Text(<<"x">>), Text(<<"x", "y">>), Format("Italic"), Format("Reset"),
     Space, LineBreak, ParagraphBreak, ThematicBreak}

\* ---------------------------------------------------------- results

OkResult(v) == [ok |-> TRUE, value |-> v]
ErrResult(e) == [ok |-> FALSE, value |-> e]

\* ------------------------------------------------------------- Init

Idle ==
    /\ text = <<>>
    /\ sPc = "idle" /\ sIter = <<>> /\ sMeta = <<>> /\ sTokens = <<>> /\ sResult = None
    /\ rPc = "idle" /\ rRest = <<>> /\ rChunk = <<>> /\ rLog = <<>>
    /\ rMeta = <<>> /\ rTokens = <<>> /\ rResult = None

InitTokenize ==
    /\ call = "tokenize"
    /\ text \in Documents
    /\ sPc = "frontmatter" /\ sIter = <<>>
    /\ sMeta = <<>> /\ sTokens = <<>> /\ sResult = None
    /\ rPc = "next1" /\ rRest = text /\ rChunk = <<>> /\ rLog = <<>>
    /\ rMeta = <<>> /\ rTokens = <<>> /\ rResult = None
    /\ lineIn = <<>> /\ lineAcc = <<>> /\ lineRes = None
    /\ errIn = None /\ errOut = None
    /\ tokIn = None /\ tokOut = None

InitLine ==
    /\ call = "line"
    /\ Idle
    /\ lineIn \in Lines /\ lineAcc \in Accumulators /\ lineRes = None
    /\ errIn = None /\ errOut = None
    /\ tokIn = None /\ tokOut = None

InitFrom ==
    /\ call = "from"
    /\ Idle
    /\ lineIn = <<>> /\ lineAcc = <<>> /\ lineRes = None
    /\ errIn \in Errors /\ errOut = None
    /\ tokIn = None /\ tokOut = None

InitToken ==
    /\ call = "token"
    /\ Idle
    /\ lineIn = <<>> /\ lineAcc = <<>> /\ lineRes = None
    /\ errIn = None /\ errOut = None
    /\ tokIn \in Tokens /\ tokOut = None

Init == InitTokenize \/ InitLine \/ InitFrom \/ InitToken

\* ------------------------------------------- Stendhal::tokenize_string

sVars == <<sPc, sIter, sMeta, sTokens, sResult>>
rVars == <<rPc, rRest, rChunk, rLog, rMeta, rTokens, rResult>>
otherVars == <<call, text, lineIn, lineAcc, lineRes, errIn, errOut, tokIn, tokOut>>

\* let mut input = input.lines(); let metadata = parse::frontmatter(&mut input)?;
StringFrontmatter ==
    /\ call = "tokenize" /\ sPc = "frontmatter"
    /\ LET m == frontmatter(StrLines(text))
       IN  IF m.err # None
           THEN /\ sResult' = ErrResult(m.err)
                /\ sPc' = "done"
                /\ UNCHANGED <<sIter, sMeta>>
           ELSE /\ sMeta' = m.metadata
                /\ sIter' = m.rest
                /\ sPc' = "body"
                /\ UNCHANGED sResult
    /\ UNCHANGED <<sTokens, rVars, otherVars>>

\* The loop with blank lines passed over.
StringBody_skipping_blank_lines ==
    /\ call = "tokenize" /\ sPc = "body"
    /\ IF sIter = <<>>
       THEN /\ sResult' = OkResult(TokenList(sMeta, sTokens))
            /\ sPc' = "done"
            /\ UNCHANGED <<sIter, sTokens>>
       ELSE LET r == line(sTokens, Head(sIter))
            IN  IF r.err # None
                THEN /\ sResult' = ErrResult(r.err)
                     /\ sPc' = "done"
                     /\ UNCHANGED <<sIter, sTokens>>
                ELSE /\ sTokens' = IF Head(sIter) = <<>> THEN sTokens ELSE r.tokens
                     /\ sIter' = Tail(sIter)
                     /\ UNCHANGED <<sResult, sPc>>
    /\ UNCHANGED <<sMeta, rVars, otherVars>>

\* One turn of `for line in input { parse::line(&mut tokens, line)?; }`, or
\* the Ok(TokenList::new_from_boxed(metadata, tokens.into())) after it.
StringBody ==
    /\ call = "tokenize" /\ sPc = "body"
    /\ IF sIter = <<>>
       THEN /\ sResult' = OkResult(TokenList(sMeta, sTokens))
            /\ sPc' = "done"
            /\ UNCHANGED <<sIter, sTokens>>
       ELSE LET r == line(sTokens, Head(sIter))
            IN  IF r.err # None
                THEN /\ sResult' = ErrResult(r.err)
                     /\ sPc' = "done"
                     /\ UNCHANGED <<sIter, sTokens>>
                ELSE /\ sTokens' = r.tokens
                     /\ sIter' = Tail(sIter)
                     /\ UNCHANGED <<sResult, sPc>>
    /\ UNCHANGED <<sMeta, rVars, otherVars>>

\* ------------------------------------------- Stendhal::tokenize_reader

\* What `iter.next()` may give: the next line of the input, the end, or an
\* I/O fault of the reader in place of either.
Pulls(rest) ==
    LET n == BufReadLine(rest)
    IN  {IF n = None THEN [kind |-> "end", line |-> <<>>, rest |-> rest, fault |-> ""]
         ELSE [kind |-> "line", line |-> n.line, rest |-> n.rest, fault |-> ""]}
        \cup {[kind |-> "fault", line |-> <<>>, rest |-> rest, fault |-> f] : f \in IoFaults}

next_as_documented(pulled) ==
    IF pulled.kind = "end" THEN [err |-> Err("UnexpectedEndOfIter", ""), line |-> <<>>]
    ELSE IF pulled.kind = "fault" THEN [err |-> Err("Io", pulled.fault), line |-> <<>>]
    ELSE [err |-> None, line |-> pulled.line]

next_fault_as_frontmatter(pulled) ==
    IF pulled.kind # "line" THEN [err |-> IncompleteOrMissingFrontmatter, line |-> <<>>]
    ELSE [err |-> None, line |-> pulled.line]

\* macro next!: $iter.next().ok_or(IncompleteOrMissingFrontmatter)??
next(pulled) ==
    IF pulled.kind = "end" THEN [err |-> IncompleteOrMissingFrontmatter, line |-> <<>>]
    ELSE IF pulled.kind = "fault" THEN [err |-> Err("Io", pulled.fault), line |-> <<>>]
    ELSE [err |-> None, line |-> pulled.line]

LogEntry(pulled) == IF pulled.kind = "fault" THEN pulled.fault ELSE pulled.kind

\* One of the three next!(iter) of `chunk`.
ReaderNext ==
    /\ call = "tokenize" /\ rPc \in {"next1", "next2", "next3"}
    /\ \E pulled \in Pulls(rRest) :
         LET n == next(pulled)
         IN  /\ rLog' = Append(rLog, LogEntry(pulled))
             /\ IF n.err # None
                THEN /\ rResult' = ErrResult(n.err)
                     /\ rPc' = "done"
                     /\ UNCHANGED <<rRest, rChunk>>
                ELSE /\ rChunk' = Append(rChunk, n.line)
                     /\ rRest' = pulled.rest
                     /\ rPc' = CASE rPc = "next1" -> "next2"
                                 [] rPc = "next2" -> "next3"
                                 [] rPc = "next3" -> "frontmatter"
                     /\ UNCHANGED rResult
    /\ UNCHANGED <<rMeta, rTokens, sVars, otherVars>>

\* let metadata = parse::frontmatter(&mut chunk.into_iter())?;
ReaderFrontmatter ==
    /\ call = "tokenize" /\ rPc = "frontmatter"
    /\ LET m == frontmatter(rChunk)
       IN  IF m.err # None
           THEN /\ rResult' = ErrResult(m.err)
                /\ rPc' = "done"
                /\ UNCHANGED rMeta
           ELSE /\ rMeta' = m.metadata
                /\ rPc' = "body"
                /\ UNCHANGED rResult
    /\ UNCHANGED <<rRest, rChunk, rLog, rTokens, sVars, otherVars>>

\* One turn of `for line in iter { parse::line(&mut tokens, &line?)?; }`, or
\* the Ok(TokenList::new_from_boxed(metadata, tokens.into())) after it.
ReaderBody ==
    /\ call = "tokenize" /\ rPc = "body"
    /\ \E pulled \in Pulls(rRest) :
         /\ rLog' = Append(rLog, LogEntry(pulled))
         /\ IF pulled.kind = "end"
            THEN /\ rResult' = OkResult(TokenList(rMeta, rTokens))
                 /\ rPc' = "done"
                 /\ UNCHANGED <<rRest, rTokens>>
            ELSE IF pulled.kind = "fault"
            THEN /\ rResult' = ErrResult(Err("Io", pulled.fault))
                 /\ rPc' = "done"
                 /\ UNCHANGED <<rRest, rTokens>>
            ELSE LET r == line(rTokens, pulled.line)
                 IN  IF r.err # None
                     THEN /\ rResult' = ErrResult(r.err)
                          /\ rPc' = "done"
                          /\ UNCHANGED <<rRest, rTokens>>
                     ELSE /\ rTokens' = r.tokens
                          /\ rRest' = pulled.rest
                          /\ UNCHANGED <<rResult, rPc>>
    /\ UNCHANGED <<rChunk, rMeta, sVars, otherVars>>

\* ------------------------------------------------ the pure operations

\* parse::line(&mut tokens, line)
ParseLine ==
    /\ call = "line" /\ lineRes = None
    /\ lineRes' = line(lineAcc, lineIn)
    /\ UNCHANGED <<call, text, sVars, rVars, lineIn, lineAcc, errIn, errOut, tokIn, tokOut>>

\* TokenizeError::from(err)
Convert ==
    /\ call = "from" /\ errOut = None
    /\ errOut' = ErrorFrom(errIn)
    /\ UNCHANGED <<call, text, sVars, rVars, lineIn, lineAcc, lineRes, errIn, tokIn, tokOut>>

\* token.is_break(), token.is_white_space(), token.is_text()
Classify ==
    /\ call = "token" /\ tokOut = None
    /\ tokOut' = [is_break |-> is_break(tokIn),
                  is_white_space |-> is_white_space(tokIn),
                  is_text |-> is_text(tokIn)]
    /\ UNCHANGED <<call, text, sVars, rVars, lineIn, lineAcc, lineRes, errIn, errOut, tokIn>>

Next ==
    \/ StringFrontmatter
    \/ StringBody
    \/ ReaderNext
    \/ ReaderFrontmatter
    \/ ReaderBody
    \/ ParseLine
    \/ Convert
    \/ Classify

Spec == Init /\ [][Next]_vars

\* =================================================================
\* Properties
\* =================================================================

StringDone == call = "tokenize" /\ sPc = "done"
ReaderDone == call = "tokenize" /\ rPc = "done"
FaultFree == \A i \in 1..Len(rLog) : rLog[i] \notin IoFaults
LineDone == call = "line" /\ lineRes # None

\* The number of lines of a text: its line feeds, and one more for a last
\* line that no line feed ends.
NumLines(t) ==
    Cardinality({i \in 1..Len(t) : t[i] = LF})
    + (IF t # <<>> /\ t[Len(t)] # LF THEN 1 ELSE 0)

BodyLinesOf(t) == Drop(StrLines(t), 3)

ExampleMetadata ==
    <<Title(<<"c", "r", "a", "f", "t", "y", "_", "n", "o", "v", "e", "l", "s">>), Author(<<"R", "e", "m", "a", "s", "t", "e", "r", "e", "d", "A", "r", "c", "h">>)>>

ExampleTokens ==
    <<ThematicBreak, Text(<<"I", "t", "a", "l", "i", "c", ":">>), Format("Italic"),
      Space, Text(<<"t", "e", "x", "t">>), Space, Format("Reset"),
      Text(<<"r", "e", "s", "e", "t">>), LineBreak>>

ExampleResult == OkResult(TokenList(ExampleMetadata, ExampleTokens))

\* C1 (as stated): tokenize_string on the worked example whose body line is
\* "##- Italic:§o text §rreset" returns the example's metadata and tokens.
C1_ExampleAsPrinted ==
    (StringDone /\ text = ExampleInputAsPrinted) => sResult = ExampleResult

\* C1 (amended): tokenize_string on the worked example whose body line is
\* "#- Italic:§o text §rreset" returns metadata [Title("crafty_novels"),
\* Author("RemasteredArch")] and exactly the nine tokens of the example.
C1_Example ==
    (StringDone /\ text = ExampleInput) => sResult = ExampleResult

C1_Witness == StringDone /\ text = ExampleInput /\ sResult.ok

C3_IoFault ==
    \A i \in 1..Len(rLog) :
        rLog[i] \in IoFaults =>
            /\ i = Len(rLog)
            /\ rPc = "done"
            /\ rResult = ErrResult(Err("Io", rLog[i]))

C3_Witness ==
    /\ Len(rLog) >= 5
    /\ rLog[Len(rLog)] \in IoFaults
    /\ rTokens # <<>>
    /\ ReaderDone

\* The places of a line where a '§' is the last character or is followed
\* by a character without a format.
BadCodes(l) ==
    {i \in 1..Len(l) :
        l[i] = SECTION /\ (i = Len(l) \/ l[i + 1] \notin DOMAIN FormatTable)}

Least(S) == CHOOSE i \in S : \A j \in S : i <= j

\* C4: parse::line fails exactly on the lines with a '§' that is last or is
\* followed by a character without a format; the leftmost such '§' gives
\* MissingFormatCode when it is last and NoSuchFormatCode with the
\* character after it otherwise.
C4_FormatCodeErrors ==
    LineDone =>
        LET bad == BadCodes(lineIn)
        IN  /\ (lineRes.err # None) <=> (bad # {})
            /\ bad # {} =>
                 lineRes.err = IF Least(bad) = Len(lineIn)
                               THEN Err("MissingFormatCode", "")
                               ELSE Err("NoSuchFormatCode", lineIn[Least(bad) + 1])

C4_Witness ==
    /\ LineDone
    /\ Cardinality(BadCodes(lineIn)) >= 2
    /\ lineRes.err # None
    /\ lineRes.err.kind = "NoSuchFormatCode"

\* C5: TokenizeError::from maps InvalidFormatCodeString, NoSuchFormatCode,
\* MissingFormatCode, UnexpectedEndOfIter and IncompleteOrMissingFrontmatter
\* to MalformedSyntaxItem, NoSuchCharLiteral to NoSuchSyntaxItem,
\* UnexpectedToken to UnexpectedSyntaxItem, and Io, Fmt and Utf8 to the
\* variant of the same name with the same fault; the result is never Other.
C5_ErrorConversion ==
    (call = "from" /\ errOut # None) =>
        /\ errOut.kind # "Other"
        /\ errIn.kind \in {"InvalidFormatCodeString", "NoSuchFormatCode",
                           "MissingFormatCode", "UnexpectedEndOfIter",
                           "IncompleteOrMissingFrontmatter"}
              => errOut.kind = "MalformedSyntaxItem"
        /\ errIn.kind = "NoSuchCharLiteral" => errOut.kind = "NoSuchSyntaxItem"
        /\ errIn.kind = "UnexpectedToken" => errOut.kind = "UnexpectedSyntaxItem"
        /\ errIn.kind \in {"Io", "Fmt", "Utf8"} => errOut = errIn
        /\ errOut.kind \in {"MalformedSyntaxItem", "NoSuchSyntaxItem", "UnexpectedSyntaxItem",
                            "Io", "Fmt", "Utf8"}

C5_Witness ==
    /\ call = "from" /\ errOut # None
    /\ errIn.kind = "IncompleteOrMissingFrontmatter"
    /\ errOut.kind = "MalformedSyntaxItem"

\* What a call of parse::line gives its caller: the error, or the tokens it
\* appended to the accumulator.
Outcome(acc, res) ==
    IF res.err # None THEN [err |-> res.err, tokens |-> <<>>]
    ELSE [err |-> None, tokens |-> Drop(res.tokens, Len(acc))]

AfterBreak(out) ==
    IF out.err # None THEN out
    ELSE [err |-> None, tokens |-> <<ThematicBreak>> \o out.tokens]

HasThematicBreak(tokens) == \E i \in 1..Len(tokens) : tokens[i] = ThematicBreak

\* C6 (as stated): for every line "#- " R the output of parse::line is
\* ThematicBreak and then what it gives for R alone; a line that does not
\* start with "#- " gives no ThematicBreak.
C6_AnyRemainder ==
    LineDone =>
        LET out == Outcome(lineAcc, lineRes)
            R == Drop(lineIn, Len(PageMarker))
        IN  IF StartsWith(lineIn, PageMarker)
            THEN out = AfterBreak(Outcome(lineAcc, line(lineAcc, R)))
            ELSE ~HasThematicBreak(out.tokens)

\* C6 (amended): for every line "#- " R whose remainder R does not itself
\* start with "#- ", the output of parse::line is ThematicBreak and then what
\* it gives for R alone; a line that does not start with "#- " gives no
\* ThematicBreak.
C6_PageMarker ==
    LineDone =>
        LET out == Outcome(lineAcc, lineRes)
            R == Drop(lineIn, Len(PageMarker))
        IN  IF StartsWith(lineIn, PageMarker)
            THEN ~StartsWith(R, PageMarker) =>
                     out = AfterBreak(Outcome(lineAcc, line(lineAcc, R)))
            ELSE ~HasThematicBreak(out.tokens)

C6_Witness ==
    /\ LineDone
    /\ StartsWith(lineIn, PageMarker)
    /\ Len(lineIn) > Len(PageMarker)
    /\ lineRes.err = None
    /\ Len(lineRes.tokens) > Len(lineAcc) + 2

\* Whether the character at i of line l is neither a space nor part of a
\* format code ('§' and the character after it).
IsPlain(l, i) ==
    /\ l[i] # " "
    /\ l[i] # SECTION
    /\ ~(i > 1 /\ l[i - 1] = SECTION)

RunEnd(l, i) ==
    CHOOSE j \in i..Len(l) :
        /\ \A k \in i..j : IsPlain(l, k)
        /\ (j = Len(l) \/ ~IsPlain(l, j + 1))

\* The maximal runs of plain characters of l from position i on, in order.
RECURSIVE RunsFrom(_, _)
RunsFrom(l, i) ==
    IF i > Len(l) THEN <<>>
    ELSE IF IsPlain(l, i)
    THEN <<SubSeq(l, i, RunEnd(l, i))>> \o RunsFrom(l, RunEnd(l, i) + 1)
    ELSE RunsFrom(l, i + 1)

Runs(l) == RunsFrom(l, 1)

Content(l) == IF StartsWith(l, PageMarker) THEN Drop(l, Len(PageMarker)) ELSE l

RECURSIVE RunsOfLines(_)
RunsOfLines(ls) ==
    IF ls = <<>> THEN <<>> ELSE Runs(ls[1]) \o RunsOfLines(Tail(ls))

RECURSIVE RunsOfContents(_)
RunsOfContents(ls) ==
    IF ls = <<>> THEN <<>> ELSE Runs(Content(ls[1])) \o RunsOfContents(Tail(ls))

TextsOf(tokens) ==
    LET texts == SelectSeq(tokens, is_text)
    IN  [i \in 1..Len(texts) |-> texts[i].val]

NoAdjacentText(tokens) ==
    \A i \in 1..(Len(tokens) - 1) : ~(is_text(tokens[i]) /\ is_text(tokens[i + 1]))

NoEmptyText(tokens) ==
    \A i \in 1..Len(tokens) : is_text(tokens[i]) => tokens[i].val # <<>>

\* C7 (as stated): in the tokens of a successful parse no two Text are
\* adjacent and no Text is empty, and the Text tokens are the maximal runs
\* of plain characters of the lines.
C7_RunsOfWholeLines ==
    /\ (StringDone /\ sResult.ok) =>
           /\ NoAdjacentText(sResult.value.tokens)
           /\ NoEmptyText(sResult.value.tokens)
           /\ TextsOf(sResult.value.tokens) = RunsOfLines(BodyLinesOf(text))
    /\ (ReaderDone /\ rResult.ok) =>
           /\ NoAdjacentText(rResult.value.tokens)
           /\ NoEmptyText(rResult.value.tokens)
           /\ TextsOf(rResult.value.tokens) = RunsOfLines(BodyLinesOf(text))
    /\ (LineDone /\ lineRes.err = None) =>
           /\ NoAdjacentText(lineRes.tokens)
           /\ NoEmptyText(lineRes.tokens)
           /\ TextsOf(Outcome(lineAcc, lineRes).tokens) = Runs(lineIn)

\* C7 (amended): in the tokens of a successful parse no two Text are
\* adjacent and no Text is empty, and the Text tokens are the maximal runs
\* of plain characters of the lines once a leading "#- " is set aside.
C7_TextRuns ==
    /\ (StringDone /\ sResult.ok) =>
           /\ NoAdjacentText(sResult.value.tokens)
           /\ NoEmptyText(sResult.value.tokens)
           /\ TextsOf(sResult.value.tokens) = RunsOfContents(BodyLinesOf(text))
    /\ (ReaderDone /\ rResult.ok) =>
           /\ NoAdjacentText(rResult.value.tokens)
           /\ NoEmptyText(rResult.value.tokens)
           /\ TextsOf(rResult.value.tokens) = RunsOfContents(BodyLinesOf(text))
    /\ (LineDone /\ lineRes.err = None) =>
           /\ NoAdjacentText(lineRes.tokens)
           /\ NoEmptyText(lineRes.tokens)
           /\ TextsOf(Outcome(lineAcc, lineRes).tokens) = Runs(Content(lineIn))

C7_Witness ==
    /\ LineDone /\ lineRes.err = None
    /\ \E i \in 1..(Len(lineIn) - 1) : IsPlain(lineIn, i) /\ IsPlain(lineIn, i + 1)
    /\ \E i \in 1..(Len(lineIn) - 1) : lineIn[i] = SECTION
    /\ Len(TextsOf(Outcome(lineAcc, lineRes).tokens)) = 1

\* The tokens cut after every LineBreak, and what follows the last one.
RECURSIVE CutAtLineBreaks(_, _, _)
CutAtLineBreaks(tokens, piece, pieces) ==
    IF tokens = <<>> THEN [pieces |-> pieces, left |-> piece]
    ELSE IF Head(tokens) = LineBreak
    THEN CutAtLineBreaks(Tail(tokens), <<>>, Append(pieces, Append(piece, LineBreak)))
    ELSE CutAtLineBreaks(Tail(tokens), Append(piece, Head(tokens)), pieces)

OneLineBreakPerLine(t, tokens) ==
    LET cut == CutAtLineBreaks(tokens, <<>>, <<>>)
        body == BodyLinesOf(t)
    IN  /\ cut.left = <<>>
        /\ Len(cut.pieces) = NumLines(t) - 3
        /\ Len(body) = NumLines(t) - 3
        /\ \A k \in 1..Len(cut.pieces) :
              /\ cut.pieces[k] = line(<<>>, body[k]).tokens
              /\ body[k] = <<>> => cut.pieces[k] = <<LineBreak>>

\* C8: the tokens of a successful parse of a document with n body lines
\* hold exactly n LineBreak, each the last token of the tokens of one body
\* line, in the order of the lines; a body line without characters gives
\* LineBreak alone.
C8_LineBreaks ==
    /\ (StringDone /\ sResult.ok) => OneLineBreakPerLine(text, sResult.value.tokens)
    /\ (ReaderDone /\ rResult.ok) => OneLineBreakPerLine(text, rResult.value.tokens)

C8_Witness ==
    /\ StringDone /\ sResult.ok
    /\ NumLines(text) = 5
    /\ \E k \in 1..2 : BodyLinesOf(text)[k] = <<>>
    /\ \E k \in 1..2 : BodyLinesOf(text)[k] # <<>>

\* C9: Token::is_break is true of LineBreak, ParagraphBreak and
\* ThematicBreak and false of Text, Format and Space.
C9_IsBreak ==
    (call = "token" /\ tokOut # None) =>
        (tokOut.is_break <=> tokIn.type \in {"LineBreak", "ParagraphBreak", "ThematicBreak"})

====
